---- MODULE Spec2Model ----
(***************************************************************************)
(* Model of the recipe backend's database ingredient matching              *)
(* (backend/main.py, suggest_recipes) and the values it computes, of the   *)
(* total time display (backend/models.py), of POST /api/rag/suggest        *)
(* (backend/main.py, backend/rag_service.py) and of seed_database          *)
(* (backend/seed_data.py).                                                 *)
(*                                                                         *)
(* Strings are sequences of one-character strings, so that lower(),        *)
(* strip() and the `in` substring test are computed, not assumed.          *)
(* A nullable column or field is <<>> (None) or <<v>> (the value v).       *)
(***************************************************************************)
EXTENDS Integers, Sequences, FiniteSets, TLC

VARIABLES
    db,        \* the recipes table: Recipe rows with their ingredients, in query order
    request,   \* the body of the last call, <<>> before any call
    result,    \* what the last suggest_recipes call did and returned
    pct_in,    \* <<have, total>> handed to the percentage computation
    pct_out,   \* the match_pct computed for pct_in, -1 before it is computed
    calls,     \* the calls that workers run side by side: per worker, where its
               \* call stands and the call's locals
    row,       \* a Recipe row whose total time is displayed, <<>> when there is none
    display,   \* the row's total_time_display once computed, <<>> before
    rag,       \* POST /api/rag/suggest: the settings, the index and the call under way
    tables,    \* the committed recipes and ingredients tables that seed_database writes
    seeding    \* the seed_database run under way: its position, locals and session

vars == <<db, request, result, pct_in, pct_out, calls, row, display, rag, tables, seeding>>

\* the state of the matching endpoint, of the time display, and of the rest
suggestVars == <<db, request, result, pct_in, pct_out, calls>>
timeVars == <<row, display>>

\* ------------------------------------------------------------------ bounds

MaxRecipes == 2      \* recipes in the catalog of Spec
MaxUser == 2         \* entries in a request's ingredient list in Spec
MaxTotal == 101      \* required-ingredient counts covered by SpecPct
CapRecipes == 11     \* recipes in the catalog of SpecCap
NormRecipes == 1     \* recipes in the catalog of SpecNorm

MaxMinutes == 70     \* largest prep or cook time of a row in SpecTime
MaxIndexed == 2      \* documents in the vector index of SpecRag

\* ------------------------------------------------------------- str methods

Min(a, b) == IF a < b THEN a ELSE b

IsSpace(c) == c = " "

\* str.lower() on one character
LowerChar(c) ==
    CASE c = "A" -> "a"
      [] c = "B" -> "b"
      [] OTHER -> c

\* str.lower()
Lower(s) == [i \in 1..Len(s) |-> LowerChar(s[i])]

RECURSIVE LStrip(_)
LStrip(s) == IF s # <<>> /\ IsSpace(Head(s)) THEN LStrip(Tail(s)) ELSE s

RECURSIVE RStrip(_)
RStrip(s) ==
    IF s # <<>> /\ IsSpace(s[Len(s)]) THEN RStrip(SubSeq(s, 1, Len(s) - 1)) ELSE s

\* str.strip(): leading and trailing whitespace removed
Strip(s) == RStrip(LStrip(s))

\* Python's `needle in hay` on strings: hay has needle as a contiguous run
Contains(needle, hay) ==
    \E i \in 0..(Len(hay) - Len(needle)) : SubSeq(hay, i + 1, i + Len(needle)) = needle

\* ------------------------------------------- float arithmetic (binary64)
\* Python's `/` on two ints and `*` on a float are IEEE 754 binary64
\* operations rounded to nearest, ties to even. A float is [m, e]: m the
\* significand as MantBits bits, most significant first (<<>> for 0.0), and
\* the value is m * 2^e. The significand is worked on in limbs of 13 bits
\* (MantBits = 1 + 4 * 13), which keeps every intermediate number small.

MantBits == 53

RECURSIVE Pow2(_)
Pow2(k) == IF k = 0 THEN 1 ELSE 2 * Pow2(k - 1)

\* the number a short sequence of bits denotes
RECURSIVE BitsToInt(_)
BitsToInt(bits) ==
    IF bits = <<>> THEN 0
    ELSE 2 * BitsToInt(SubSeq(bits, 1, Len(bits) - 1)) + bits[Len(bits)]

\* n as exactly `width` bits
IntToBits(n, width) == [i \in 1..width |-> (n \div Pow2(width - i)) % 2]

\* bits without its leading zeros
StripZeros(bits) ==
    LET ones == {i \in 1..Len(bits) : bits[i] = 1}
    IN IF ones = {} THEN <<>>
       ELSE SubSeq(bits, CHOOSE i \in ones : \A j \in ones : i <= j, Len(bits))

\* bits + 1; one bit longer when every bit was 1
IncBits(bits) ==
    LET zeros == {i \in 1..Len(bits) : bits[i] = 0}
    IN IF zeros = {} THEN <<1>> \o [i \in 1..Len(bits) |-> 0]
       ELSE LET last == CHOOSE i \in zeros : \A j \in zeros : j <= i
            IN [i \in 1..Len(bits) |->
                   IF i < last THEN bits[i] ELSE IF i = last THEN 1 ELSE 0]

\* the significand m (MantBits bits) and exponent e after rounding m up or not
Rounded(m, e, up) ==
    LET r == IF up THEN IncBits(m) ELSE m
    IN IF Len(r) > MantBits
       THEN [m |-> SubSeq(r, 1, MantBits), e |-> e + 1]
       ELSE [m |-> r, e |-> e]

\* the least k with h * 2^k >= t, for h > 0
RECURSIVE NormShift(_, _)
NormShift(h, t) == IF h >= t THEN 0 ELSE 1 + NormShift(2 * h, t)

\* long division: n more 13-bit limbs of the quotient rem / t appended to acc
RECURSIVE DivLimbs(_, _, _, _)
DivLimbs(acc, rem, t, n) ==
    IF n = 0 THEN [bits |-> acc, rem |-> rem]
    ELSE LET shifted == rem * Pow2(13)
         IN DivLimbs(acc \o IntToBits(shifted \div t, 13), shifted % t, t, n - 1)

\* float(h) / float(t) for ints 0 <= h <= t, t > 0, correctly rounded: with
\* h * 2^k / t in [1, 2) the leading bit is 1 and the remainder after
\* MantBits bits decides the rounding
FloatDiv(h, t) ==
    IF h = 0 THEN [m |-> <<>>, e |-> 0]
    ELSE LET k == NormShift(h, t)
             d == DivLimbs(<<1>>, h * Pow2(k) - t, t, (MantBits - 1) \div 13)
             up == \/ 2 * d.rem > t
                   \/ 2 * d.rem = t /\ d.bits[MantBits] = 1
         IN Rounded(d.bits, 0 - (MantBits - 1) - k, up)

\* bits * c + carry for a small int c, from the least significant limb up
RECURSIVE MulLimbs(_, _, _, _)
MulLimbs(bits, c, carry, acc) ==
    IF bits = <<>> THEN StripZeros(IntToBits(carry, 13) \o acc)
    ELSE LET lo == IF Len(bits) > 13 THEN Len(bits) - 12 ELSE 1
             d == BitsToInt(SubSeq(bits, lo, Len(bits))) * c + carry
         IN MulLimbs(SubSeq(bits, 1, lo - 1), c, d \div Pow2(13),
                     IntToBits(d % Pow2(13), 13) \o acc)

\* x * float(c) for a float x >= 0 and an int 1 <= c < 2^13, which binary64
\* holds exactly: the exact product rounded to MantBits bits
FloatMul(x, c) ==
    IF x.m = <<>> THEN x
    ELSE LET p == MulLimbs(x.m, c, 0, <<>>)
             extra == Len(p) - MantBits
             kept == SubSeq(p, 1, MantBits)
             rest == SubSeq(p, MantBits + 1, Len(p))
             up == /\ extra > 0
                   /\ rest[1] = 1
                   /\ \/ \E i \in 2..extra : rest[i] = 1
                      \/ kept[MantBits] = 1
         IN Rounded(kept, x.e + extra, up)

\* int(x) for a float 0 <= x < 2^13: truncation toward zero
FloatToInt(x) ==
    IF x.m = <<>> \/ MantBits + x.e <= 0 THEN 0
    ELSE BitsToInt(SubSeq(x.m, 1, MantBits + x.e))

\* what stands for the ZeroDivisionError that `/` raises on a divisor of 0
ZeroDivisionError == -1

\* int((have / total) * 100)
Percentage(have, total) ==
    IF total = 0 THEN ZeroDivisionError
    ELSE FloatToInt(FloatMul(FloatDiv(have, total), 100))

\* Percentage for every 0 <= have <= total <= MaxTotal, worked out once
Percentages == [total \in 0..MaxTotal |-> [have \in 0..total |-> Percentage(have, total)]]

\* the division done without looking at total_ingredients first
MatchPct_Unguarded(have, total) == Percentages[total][have]

\* a recipe without ingredients counted as fully matched
MatchPct_EmptyIsFull(have, total) ==
    IF total > 0 THEN Percentages[total][have] ELSE 100

\* the share rounded up to the next whole percent
MatchPct_Ceiling(have, total) ==
    IF total > 0 THEN (100 * have + total - 1) \div total ELSE 0

\* match_pct of a recipe: int((len(ingredients_have) / total_ingredients) * 100)
MatchPct(have, total) ==
    IF total > 0 THEN Percentages[total][have] ELSE 0

\* ------------------------------------------------------- suggest_recipes

None == <<>>
Some(v) == <<v>>

\* the slice bound of suggestions[:10]
MaxResults == 10

\* the entries lower-cased but not stripped
NormalizeIngredients_NoStrip(ingredients) ==
    [i \in 1..Len(ingredients) |-> Lower(ingredients[i])]

\* entries that are empty after trimming left out
NormalizeIngredients_DropBlank(ingredients) ==
    LET NotBlank(ing) == Strip(Lower(ing)) # <<>>
    IN [i \in 1..Len(SelectSeq(ingredients, NotBlank)) |->
            Strip(Lower(SelectSeq(ingredients, NotBlank)[i]))]

\* user_ingredients = [ing.lower().strip() for ing in input_data.ingredients]
NormalizeIngredients(ingredients) ==
    [i \in 1..Len(ingredients) |-> Strip(Lower(ingredients[i]))]

\* SQL's `text LIKE pattern`: % stands for any run of characters and _ for
\* any one character (the escape character is not in the model's alphabet)
RECURSIVE LikeMatch(_, _)
LikeMatch(pattern, text) ==
    IF pattern = <<>> THEN text = <<>>
    ELSE IF Head(pattern) = "%"
         THEN LikeMatch(Tail(pattern), text)
              \/ (text # <<>> /\ LikeMatch(pattern, Tail(text)))
    ELSE IF Head(pattern) = "_"
         THEN text # <<>> /\ LikeMatch(Tail(pattern), Tail(text))
    ELSE text # <<>> /\ Head(text) = Head(pattern) /\ LikeMatch(Tail(pattern), Tail(text))

\* Recipe.cuisine.ilike(f"%{preference}%"): LIKE without regard to case, the
\* preference put into the pattern as it came; NULL never matches
CuisineIlike(cuisine, preference) ==
    cuisine # None /\ LikeMatch(<<"%">> \o Lower(preference) \o <<"%">>, Lower(cuisine[1]))

\* Recipe.dietary_tags.contains([restriction])
TagsContain(dietary_tags, restriction) ==
    dietary_tags # None /\ \E i \in 1..Len(dietary_tags[1]) : dietary_tags[1][i] = restriction

\* the empty check left out
NoIngredients_Never(user_ingredients) == FALSE

\* `if not user_ingredients`: the list built from the request is empty
NoIngredients(user_ingredients) == Len(user_ingredients) = 0

\* the rows query.all() returns: the cuisine filter applies when the preference
\* is truthy, and one filter is added per dietary restriction
QueryRecipes(catalog, input_data) ==
    LET pref == input_data.cuisine_preference
        restrictions == input_data.dietary_restrictions
        Selected(recipe) ==
            /\ (pref # None /\ pref[1] # <<>>) => CuisineIlike(recipe.cuisine, pref[1])
            /\ \A i \in 1..Len(restrictions) : TagsContain(recipe.dietary_tags, restrictions[i])
    IN SelectSeq(catalog, Selected)

\* recipe_ingredients_names = [ing.name.lower() for ing in recipe.ingredients]
RecipeIngredientNames(recipe) ==
    [i \in 1..Len(recipe.ingredients) |-> Lower(recipe.ingredients[i])]

\* containment tested in one direction only
HasIngredient_OneWay(recipe_ing, user_ingredients) ==
    \E i \in 1..Len(user_ingredients) : Contains(user_ingredients[i], recipe_ing)

\* all() in the place of any()
HasIngredient_All(recipe_ing, user_ingredients) ==
    \A i \in 1..Len(user_ingredients) :
        \/ Contains(user_ingredients[i], recipe_ing)
        \/ Contains(recipe_ing, user_ingredients[i])

\* only the first user ingredient looked at
HasIngredient_FirstOnly(recipe_ing, user_ingredients) ==
    /\ Len(user_ingredients) > 0
    /\ \/ Contains(user_ingredients[1], recipe_ing)
       \/ Contains(recipe_ing, user_ingredients[1])

\* any(user_ing in recipe_ing or recipe_ing in user_ing for user_ing in user_ingredients)
HasIngredient(recipe_ing, user_ingredients) ==
    \E i \in 1..Len(user_ingredients) :
        \/ Contains(user_ingredients[i], recipe_ing)
        \/ Contains(recipe_ing, user_ingredients[i])

\* a satisfied name appended to both lists
RECURSIVE SplitIngredients_Both(_, _, _, _)
SplitIngredients_Both(names, user_ingredients, have, need) ==
    IF names = <<>> THEN [have |-> have, need |-> need]
    ELSE LET hit == \E i \in 1..Len(user_ingredients) :
                       \/ Contains(user_ingredients[i], Head(names))
                       \/ Contains(Head(names), user_ingredients[i])
         IN SplitIngredients_Both(Tail(names), user_ingredients,
                                  IF hit THEN Append(have, Head(names)) ELSE have,
                                  Append(need, Head(names)))

\* the for loop over recipe_ingredients_names: each name is appended to
\* ingredients_have or to ingredients_need
RECURSIVE SplitIngredients(_, _, _, _)
SplitIngredients(names, user_ingredients, have, need) ==
    IF names = <<>> THEN [have |-> have, need |-> need]
    ELSE IF HasIngredient(Head(names), user_ingredients)
         THEN SplitIngredients(Tail(names), user_ingredients, Append(have, Head(names)), need)
         ELSE SplitIngredients(Tail(names), user_ingredients, have, Append(need, Head(names)))

\* one iteration of `for recipe in recipes` up to match_pct
ScoreRecipe(recipe, user_ingredients) ==
    LET names == RecipeIngredientNames(recipe)
        split == SplitIngredients(names, user_ingredients, <<>>, <<>>)
    IN [id |-> recipe.id,
        ingredients_have |-> split.have,
        ingredients_need |-> split.need,
        match_percentage |-> MatchPct(Len(split.have), Len(names)),
        cuisine |-> recipe.cuisine,
        dietary_tags |-> IF recipe.dietary_tags = None THEN <<>> ELSE recipe.dietary_tags[1]]

\* the filter letting a score of 0 through
KeepSuggestion_ZeroToo(match_pct, user_ingredients) == match_pct >= 0

\* the second test written the other way round
KeepSuggestion_NonEmptyList(match_pct, user_ingredients) ==
    match_pct > 0 \/ Len(user_ingredients) # 0

\* if match_pct > 0 or len(user_ingredients) == 0
KeepSuggestion(match_pct, user_ingredients) ==
    match_pct > 0 \/ Len(user_ingredients) = 0

\* the sort without reverse=True
RECURSIVE InsertByMatch_Ascending(_, _)
InsertByMatch_Ascending(x, sorted) ==
    IF sorted = <<>> THEN <<x>>
    ELSE IF Head(sorted).match_percentage <= x.match_percentage
         THEN <<Head(sorted)>> \o InsertByMatch_Ascending(x, Tail(sorted))
         ELSE <<x>> \o sorted

\* an unstable sort: x put before the elements that score the same
RECURSIVE InsertByMatch_TiesFirst(_, _)
InsertByMatch_TiesFirst(x, sorted) ==
    IF sorted = <<>> THEN <<x>>
    ELSE IF Head(sorted).match_percentage > x.match_percentage
         THEN <<Head(sorted)>> \o InsertByMatch_TiesFirst(x, Tail(sorted))
         ELSE <<x>> \o sorted

\* the suggestions kept under their score, one per score
RECURSIVE InsertByMatch_DropTies(_, _)
InsertByMatch_DropTies(x, sorted) ==
    IF sorted = <<>> THEN <<x>>
    ELSE IF Head(sorted).match_percentage > x.match_percentage
         THEN <<Head(sorted)>> \o InsertByMatch_DropTies(x, Tail(sorted))
         ELSE IF Head(sorted).match_percentage = x.match_percentage
              THEN <<x>> \o Tail(sorted)
              ELSE <<x>> \o sorted

\* where list.sort(key=match_percentage, reverse=True) puts x among the
\* already sorted elements: after every element that is not smaller (stable)
RECURSIVE InsertByMatch(_, _)
InsertByMatch(x, sorted) ==
    IF sorted = <<>> THEN <<x>>
    ELSE IF Head(sorted).match_percentage >= x.match_percentage
         THEN <<Head(sorted)>> \o InsertByMatch(x, Tail(sorted))
         ELSE <<x>> \o sorted

\* suggestions.sort(key=lambda x: x.match_percentage, reverse=True)
RECURSIVE SortByMatch(_, _)
SortByMatch(suggestions, sorted) ==
    IF suggestions = <<>> THEN sorted
    ELSE SortByMatch(Tail(suggestions), InsertByMatch(Head(suggestions), sorted))

\* the slice taking one element too many
CapSuggestions_OneMore(suggestions) ==
    SubSeq(suggestions, 1, Min(Len(suggestions), MaxResults + 1))

\* the slice taken from the other end: suggestions[-10:]
CapSuggestions_Last(suggestions) ==
    SubSeq(suggestions, Len(suggestions) - Min(Len(suggestions), MaxResults) + 1,
           Len(suggestions))

\* suggestions[:10]
CapSuggestions(suggestions) ==
    SubSeq(suggestions, 1, Min(Len(suggestions), MaxResults))

\* the body as the handler receives it: the declared fields, a missing optional
\* field at its default, any other field of the body dropped
IngredientInput(body) ==
    [ingredients |-> body.ingredients,
     dietary_restrictions |->
        IF "dietary_restrictions" \in DOMAIN body THEN body.dietary_restrictions ELSE <<>>,
     cuisine_preference |->
        IF "cuisine_preference" \in DOMAIN body THEN body.cuisine_preference ELSE None]

\* str(n) for an int n >= 0, as a sequence of characters
RECURSIVE Decimal(_)
Decimal(n) ==
    LET digit == <<"0", "1", "2", "3", "4", "5", "6", "7", "8", "9">>[(n % 10) + 1]
    IN IF n < 10 THEN <<digit>> ELSE Append(Decimal(n \div 10), digit)

\* f"Found {found} recipes matching your {n_ingredients} ingredients!"
Message(found, n_ingredients) ==
    <<"Found ">> \o Decimal(found) \o <<" recipes matching your ">>
        \o Decimal(n_ingredients) \o <<" ingredients!">>

\* the counts taken before the preselection and before the cap
Respond_CountsAll(suggestions, user_ingredients, recipes, catalog, sorted) ==
    [suggestions |-> suggestions,
     found |-> Len(sorted),
     n_ingredients |-> Len(user_ingredients),
     message |-> Message(Len(sorted), Len(user_ingredients)),
     total_recipes_searched |-> Len(catalog)]

\* RecipeSuggestionsResponse(suggestions=..., message=..., total_recipes_searched=...);
\* the table and the list before the slice are not read
Respond(suggestions, user_ingredients, recipes, catalog, sorted) ==
    [suggestions |-> suggestions,
     found |-> Len(suggestions),
     n_ingredients |-> Len(user_ingredients),
     message |-> Message(Len(suggestions), Len(user_ingredients)),
     total_recipes_searched |-> Len(recipes)]

\* The endpoint. The record keeps the handler's locals next to what it
\* returns: status 400 is the HTTPException, response is None then.
SuggestRecipes(input_data, catalog) ==
    LET user_ingredients == NormalizeIngredients(input_data.ingredients)
    IN IF NoIngredients(user_ingredients)
       THEN [status |-> 400, queried |-> FALSE, user_ingredients |-> user_ingredients,
             recipes |-> <<>>, scored |-> <<>>, sorted |-> <<>>, response |-> None]
       ELSE LET recipes == QueryRecipes(catalog, input_data)
                scored == [i \in 1..Len(recipes) |-> ScoreRecipe(recipes[i], user_ingredients)]
                Kept(sg) == KeepSuggestion(sg.match_percentage, user_ingredients)
                sorted == SortByMatch(SelectSeq(scored, Kept), <<>>)
                suggestions == CapSuggestions(sorted)
            IN [status |-> 200, queried |-> TRUE, user_ingredients |-> user_ingredients,
                recipes |-> recipes, scored |-> scored, sorted |-> sorted,
                response |-> Some(Respond(suggestions, user_ingredients, recipes,
                                          catalog, sorted))]

\* ----------------------------------------------------------------- inputs

\* sequences over S of length 0..n
RECURSIVE SeqsUpTo(_, _)
SeqsUpTo(S, n) ==
    IF n = 0 THEN {<<>>}
    ELSE LET shorter == SeqsUpTo(S, n - 1)
         IN shorter \cup {Append(q, x) : q \in {r \in shorter : Len(r) = n - 1}, x \in S}

\* Recipe rows without their ids. Ingredient.name is any non-null string: the
\* schema does not require it lower-case or trimmed.
RecipeKinds ==
    { [ingredients |-> <<>>, cuisine |-> None, dietary_tags |-> None],
      [ingredients |-> << <<"a">> >>,
       cuisine |-> Some(<<"A", "b">>), dietary_tags |-> Some(<<"v">>)],
      [ingredients |-> << <<"a", "b">>, <<"b">> >>,
       cuisine |-> Some(<<"a">>), dietary_tags |-> Some(<<>>)],
      [ingredients |-> << <<"A", "b">>, <<"a", " ">> >>,
       cuisine |-> None, dietary_tags |-> Some(<<"v", "g">>)],
      [ingredients |-> << <<"b">>, <<"b", "a">>, <<"a">> >>,
       cuisine |-> Some(<<"b">>), dietary_tags |-> Some(<<"g">>)] }

\* the table holding the given rows: ids are assigned in insertion order
WithIds(rows) ==
    [i \in 1..Len(rows) |->
        [id |-> i, ingredients |-> rows[i].ingredients,
         cuisine |-> rows[i].cuisine, dietary_tags |-> rows[i].dietary_tags]]

Catalogs == {WithIds(rows) : rows \in SeqsUpTo(RecipeKinds, MaxRecipes)}

\* what a user may type as one ingredient
UserEntries == { <<"a">>, <<"b", "a">>, <<"A", " ">>, <<" ", "b">>, <<>>, <<" ">> }

\* IngredientInput bodies: every ingredient list without filters, and two
\* lists under every combination of the filters
Requests ==
    { [ingredients |-> l, dietary_restrictions |-> <<>>, cuisine_preference |-> None] :
        l \in SeqsUpTo(UserEntries, MaxUser) }
    \cup
    { [ingredients |-> l, dietary_restrictions |-> d, cuisine_preference |-> c] :
        l \in { << <<"a">> >>, << <<" ", "b">> >> },
        d \in { <<>>, <<"v">>, <<"g", "v">> },
        c \in { None, Some(<<>>), Some(<<"A">>), Some(<<"_">>) } }

\* ---------------------------------------------- Recipe.total_time_display

\* `value or 0` on a nullable Integer column
OrZero(value) == IF value = None THEN 0 ELSE value[1]

\* Recipe.total_time_minutes
TotalTimeMinutes(recipe) ==
    LET prep == OrZero(recipe.prep_time_minutes)
        cook == OrZero(recipe.cook_time_minutes)
    IN prep + cook

\* the hour format chosen only above 60 minutes
TotalTimeDisplay_Above60(recipe) ==
    LET total == TotalTimeMinutes(recipe)
    IN IF total > 60
       THEN LET hours == total \div 60
                mins == total % 60
            IN IF mins # 0
               THEN Decimal(hours) \o <<"h", " ">> \o Decimal(mins) \o <<"m">>
               ELSE Decimal(hours) \o <<"h">>
       ELSE Decimal(total) \o <<" ", "m", "i", "n", "u", "t", "e", "s">>

\* Recipe.total_time_display, as a sequence of characters
TotalTimeDisplay(recipe) ==
    LET total == TotalTimeMinutes(recipe)
    IN IF total >= 60
       THEN LET hours == total \div 60
                mins == total % 60
            IN IF mins # 0
               THEN Decimal(hours) \o <<"h", " ">> \o Decimal(mins) \o <<"m">>
               ELSE Decimal(hours) \o <<"h">>
       ELSE Decimal(total) \o <<" ", "m", "i", "n", "u", "t", "e", "s">>

\* ------------------------------------------------------ POST /api/rag/suggest

\* the call's state before a request arrives, under the given settings and index
IdleRag(api_key, collection) ==
    [api_key |-> api_key, collection |-> collection, pc |-> "idle", body |-> None,
     stats |-> None, similar_recipes |-> <<>>, status |-> 0, made |-> <<>>]

\* get_collection_stats: the count when recipe_collection.count() returns, a
\* dict without document_count when it raises
GetCollectionStats(collection, readable) ==
    [document_count |-> IF readable THEN Some(Len(collection)) ELSE None]

\* stats.get("document_count", 0)
DocumentCount(stats) ==
    IF stats.document_count = None THEN 0 ELSE stats.document_count[1]

\* the test passing a stats dict that has no count
NoneIndexed_ErrorPasses(stats) ==
    stats.document_count # None /\ stats.document_count[1] = 0

\* if stats.get("document_count", 0) == 0
NoneIndexed(stats) == DocumentCount(stats) = 0

\* n_results of the retrieval inside rag_recipe_suggestions
RagResults == 5

\* semantic_search: the first n_results documents passing the cuisine filter
\* (the index's similarity order is the order of the collection), of which
\* those sharing a tag with the dietary filter are kept; [] when the query raises
SemanticSearch(collection, n_results, cuisine_filter, dietary_filter, answers) ==
    LET Where(doc) == cuisine_filter = None \/ cuisine_filter[1] = ""
                      \/ doc.cuisine = cuisine_filter[1]
        found == SelectSeq(collection, Where)
        results == SubSeq(found, 1, Min(Len(found), n_results))
        Tagged(doc) == dietary_filter = <<>>
                       \/ \E i \in 1..Len(dietary_filter) :
                             \E t \in 1..Len(doc.dietary_tags) :
                                 doc.dietary_tags[t] = dietary_filter[i]
    IN IF answers THEN SelectSeq(results, Tagged) ELSE <<>>

\* ------------------------------------------------------------ seed_database

\* RECIPES_DATA: the name of each seed recipe and the names of its
\* (ingredient_name, quantity) pairs
RECIPES_DATA == <<
    [name |-> "Classic Spaghetti Carbonara",
     ingredients |-> <<
          <<"s", "p", "a", "g", "h", "e", "t", "t", "i">>,
          <<"p", "a", "n", "c", "e", "t", "t", "a">>,
          <<"e", "g", "g", "s">>,
          <<"p", "e", "c", "o", "r", "i", "n", "o", " ", "r", "o", "m", "a", "n", "o">>,
          <<"b", "l", "a", "c", "k", " ", "p", "e", "p", "p", "e", "r">>,
          <<"s", "a", "l", "t">> >>],
    [name |-> "Thai Green Curry",
     ingredients |-> <<
          <<"c", "o", "c", "o", "n", "u", "t", " ", "m", "i", "l", "k">>,
          <<"g", "r", "e", "e", "n", " ", "c", "u", "r", "r", "y", " ", "p", "a", "s", "t", "e">>,
          <<"c", "h", "i", "c", "k", "e", "n", " ", "b", "r", "e", "a", "s", "t">>,
          <<"b", "a", "m", "b", "o", "o", " ", "s", "h", "o", "o", "t", "s">>,
          <<"t", "h", "a", "i", " ", "b", "a", "s", "i", "l">>,
          <<"f", "i", "s", "h", " ", "s", "a", "u", "c", "e">>,
          <<"p", "a", "l", "m", " ", "s", "u", "g", "a", "r">>,
          <<"l", "i", "m", "e", " ", "l", "e", "a", "v", "e", "s">>,
          <<"v", "e", "g", "e", "t", "a", "b", "l", "e", " ", "o", "i", "l">>,
          <<"j", "a", "s", "m", "i", "n", "e", " ", "r", "i", "c", "e">> >>],
    [name |-> "Simple Pasta Aglio e Olio",
     ingredients |-> <<
          <<"s", "p", "a", "g", "h", "e", "t", "t", "i">>,
          <<"g", "a", "r", "l", "i", "c">>,
          <<"o", "l", "i", "v", "e", " ", "o", "i", "l">>,
          <<"r", "e", "d", " ", "p", "e", "p", "p", "e", "r", " ", "f", "l", "a", "k", "e", "s">>,
          <<"p", "a", "r", "s", "l", "e", "y">>,
          <<"s", "a", "l", "t">> >>],
    [name |-> "Chicken Tikka Masala",
     ingredients |-> <<
          <<"c", "h", "i", "c", "k", "e", "n", " ", "t", "h", "i", "g", "h", "s">>,
          <<"y", "o", "g", "u", "r", "t">>,
          <<"g", "a", "r", "a", "m", " ", "m", "a", "s", "a", "l", "a">>,
          <<"c", "u", "m", "i", "n">>,
          <<"g", "i", "n", "g", "e", "r">>,
          <<"g", "a", "r", "l", "i", "c">>,
          <<"o", "n", "i", "o", "n">>,
          <<"t", "o", "m", "a", "t", "o", " ", "p", "u", "r", "e", "e">>,
          <<"h", "e", "a", "v", "y", " ", "c", "r", "e", "a", "m">>,
          <<"c", "i", "l", "a", "n", "t", "r", "o">> >>],
    [name |-> "Vegetable Stir Fry",
     ingredients |-> <<
          <<"b", "r", "o", "c", "c", "o", "l", "i">>,
          <<"b", "e", "l", "l", " ", "p", "e", "p", "p", "e", "r">>,
          <<"c", "a", "r", "r", "o", "t", "s">>,
          <<"s", "n", "a", "p", " ", "p", "e", "a", "s">>,
          <<"g", "a", "r", "l", "i", "c">>,
          <<"g", "i", "n", "g", "e", "r">>,
          <<"s", "o", "y", " ", "s", "a", "u", "c", "e">>,
          <<"s", "e", "s", "a", "m", "e", " ", "o", "i", "l">>,
          <<"v", "e", "g", "e", "t", "a", "b", "l", "e", " ", "o", "i", "l">>,
          <<"r", "i", "c", "e">> >>],
    [name |-> "Classic Beef Tacos",
     ingredients |-> <<
          <<"g", "r", "o", "u", "n", "d", " ", "b", "e", "e", "f">>,
          <<"t", "a", "c", "o", " ", "s", "h", "e", "l", "l", "s">>,
          <<"c", "u", "m", "i", "n">>,
          <<"c", "h", "i", "l", "i", " ", "p", "o", "w", "d", "e", "r">>,
          <<"p", "a", "p", "r", "i", "k", "a">>,
          <<"g", "a", "r", "l", "i", "c", " ", "p", "o", "w", "d", "e", "r">>,
          <<"l", "e", "t", "t", "u", "c", "e">>,
          <<"t", "o", "m", "a", "t", "o", "e", "s">>,
          <<"c", "h", "e", "d", "d", "a", "r", " ", "c", "h", "e", "e", "s", "e">>,
          <<"s", "o", "u", "r", " ", "c", "r", "e", "a", "m">>,
          <<"s", "a", "l", "s", "a">> >>],
    [name |-> "Mushroom Risotto",
     ingredients |-> <<
          <<"a", "r", "b", "o", "r", "i", "o", " ", "r", "i", "c", "e">>,
          <<"m", "u", "s", "h", "r", "o", "o", "m", "s">>,
          <<"v", "e", "g", "e", "t", "a", "b", "l", "e", " ", "b", "r", "o", "t", "h">>,
          <<"w", "h", "i", "t", "e", " ", "w", "i", "n", "e">>,
          <<"o", "n", "i", "o", "n">>,
          <<"g", "a", "r", "l", "i", "c">>,
          <<"p", "a", "r", "m", "e", "s", "a", "n">>,
          <<"b", "u", "t", "t", "e", "r">>,
          <<"o", "l", "i", "v", "e", " ", "o", "i", "l">>,
          <<"t", "h", "y", "m", "e">> >>],
    [name |-> "Honey Garlic Salmon",
     ingredients |-> <<
          <<"s", "a", "l", "m", "o", "n", " ", "f", "i", "l", "l", "e", "t", "s">>,
          <<"h", "o", "n", "e", "y">>,
          <<"s", "o", "y", " ", "s", "a", "u", "c", "e">>,
          <<"g", "a", "r", "l", "i", "c">>,
          <<"l", "e", "m", "o", "n", " ", "j", "u", "i", "c", "e">>,
          <<"o", "l", "i", "v", "e", " ", "o", "i", "l">>,
          <<"s", "a", "l", "t">>,
          <<"b", "l", "a", "c", "k", " ", "p", "e", "p", "p", "e", "r">> >>],
    [name |-> "Greek Salad",
     ingredients |-> <<
          <<"t", "o", "m", "a", "t", "o", "e", "s">>,
          <<"c", "u", "c", "u", "m", "b", "e", "r">>,
          <<"r", "e", "d", " ", "o", "n", "i", "o", "n">>,
          <<"k", "a", "l", "a", "m", "a", "t", "a", " ", "o", "l", "i", "v", "e", "s">>,
          <<"f", "e", "t", "a", " ", "c", "h", "e", "e", "s", "e">>,
          <<"o", "l", "i", "v", "e", " ", "o", "i", "l">>,
          <<"r", "e", "d", " ", "w", "i", "n", "e", " ", "v", "i", "n", "e", "g", "a", "r">>,
          <<"o", "r", "e", "g", "a", "n", "o">>,
          <<"s", "a", "l", "t">> >>],
    [name |-> "Japanese Miso Soup",
     ingredients |-> <<
          <<"m", "i", "s", "o", " ", "p", "a", "s", "t", "e">>,
          <<"d", "a", "s", "h", "i", " ", "s", "t", "o", "c", "k">>,
          <<"s", "i", "l", "k", "e", "n", " ", "t", "o", "f", "u">>,
          <<"w", "a", "k", "a", "m", "e", " ", "s", "e", "a", "w", "e", "e", "d">>,
          <<"g", "r", "e", "e", "n", " ", "o", "n", "i", "o", "n", "s">> >>] >>

EmptyTables == [recipes |-> <<>>, ingredients |-> <<>>]

\* no run of seed_database under way
IdleSeeding ==
    [pc |-> "idle", k |-> 0, j |-> 0, ingredient_cache |-> <<>>, recipe |-> <<>>,
     session |-> EmptyTables, outcome |-> "none", error |-> <<>>, found |-> EmptyTables]

\* existing_recipes = db.query(Recipe).count(); if existing_recipes > 0
AlreadySeeded(recipes) == Len(recipes) > 0

\* ingredient_name.lower().strip()
IngName(ingredient_name) == Strip(Lower(ingredient_name))

\* the position of ing_name in ingredient_cache, 0 when it is not a key
CachePosition(ingredient_cache, ing_name) ==
    IF \E p \in 1..Len(ingredient_cache) : ingredient_cache[p].name = ing_name
    THEN CHOOSE p \in 1..Len(ingredient_cache) : ingredient_cache[p].name = ing_name
    ELSE 0

\* db.query(Ingredient).filter(Ingredient.name == ing_name).first() over the
\* committed rows followed by the rows flushed in this session: the row's
\* position, 0 for None. A row is referred to by its position; the ids the
\* database hands out are not modelled.
FirstIngredient(rows, ing_name) ==
    IF \E p \in 1..Len(rows) : rows[p].name = ing_name
    THEN CHOOSE p \in 1..Len(rows) : rows[p].name = ing_name
                                     /\ \A q \in 1..(p - 1) : rows[q].name # ing_name
    ELSE 0

\* the other variables while the matching endpoint alone is looked at
NothingElse ==
    /\ row = None
    /\ display = None
    /\ rag = IdleRag(FALSE, <<>>)
    /\ tables = EmptyTables
    /\ seeding = IdleSeeding

NoResult ==
    [status |-> 0, queried |-> FALSE, user_ingredients |-> <<>>, recipes |-> <<>>,
     scored |-> <<>>, sorted |-> <<>>, response |-> None]

\* ---------------------------------------------------------- specification

Init ==
    /\ db \in Catalogs
    /\ request = None
    /\ result = NoResult
    /\ pct_in = <<0, 0>>
    /\ pct_out = -1
    /\ calls = <<>>
    /\ NothingElse

\* POST /api/recipes/suggest with body input_data, from arrival to return
Suggest(input_data) ==
    /\ request = None
    /\ request' = Some(input_data)
    /\ result' = SuggestRecipes(IngredientInput(input_data), db)
    /\ UNCHANGED <<db, pct_in, pct_out, calls, row, display, rag, tables, seeding>>

\* the response is sent and the handler's locals are dropped; the next call
\* starts from nothing but the database
Reply ==
    /\ request # None
    /\ request' = None
    /\ result' = NoResult
    /\ UNCHANGED <<db, pct_in, pct_out, calls, row, display, rag, tables, seeding>>

Next ==
    \/ \E input_data \in Requests : Suggest(input_data)
    \/ Reply

Spec == Init /\ [][Next]_vars

\* the percentage computation alone, on every pair 0 <= have <= total <= MaxTotal
InitPct ==
    /\ db = <<>>
    /\ request = None
    /\ result = NoResult
    /\ pct_in \in {p \in (0..MaxTotal) \X (0..MaxTotal) : p[1] <= p[2]}
    /\ pct_out = -1
    /\ calls = <<>>
    /\ NothingElse

ComputePct ==
    /\ pct_out = -1
    /\ pct_out' = MatchPct(pct_in[1], pct_in[2])
    /\ UNCHANGED <<db, request, result, pct_in, calls, row, display, rag, tables, seeding>>

NextPct == ComputePct

SpecPct == InitPct /\ [][NextPct]_vars

\* catalogs long enough for the slice to cut: two kinds of recipe, one
\* requiring "a" and one requiring "a" and "b"
CapKinds ==
    { [ingredients |-> << <<"a">> >>, cuisine |-> None, dietary_tags |-> None],
      [ingredients |-> << <<"a">>, <<"b">> >>, cuisine |-> None, dietary_tags |-> None] }

CapCatalogs == {WithIds(rows) : rows \in SeqsUpTo(CapKinds, CapRecipes)}

CapRequests ==
    { [ingredients |-> l, dietary_restrictions |-> <<>>, cuisine_preference |-> None] :
        l \in { << <<"a">> >>, << <<"b">> >> } }

InitCap ==
    /\ db \in CapCatalogs
    /\ request = None
    /\ result = NoResult
    /\ pct_in = <<0, 0>>
    /\ pct_out = -1
    /\ calls = <<>>
    /\ NothingElse

NextCap ==
    \/ \E input_data \in CapRequests : Suggest(input_data)
    \/ Reply

SpecCap == InitCap /\ [][NextCap]_vars

\* every request against the short catalogs, for comparing the answers to
\* requests that are written differently
InitNorm ==
    /\ db \in {WithIds(rows) : rows \in SeqsUpTo(RecipeKinds, NormRecipes)}
    /\ request = None
    /\ result = NoResult
    /\ pct_in = <<0, 0>>
    /\ pct_out = -1
    /\ calls = <<>>
    /\ NothingElse

SpecNorm == InitNorm /\ [][Next]_vars

\* bodies with a cuisine preference and with a field the schema does not
\* declare, against catalogs long enough for the slice to cut what the
\* cuisine filter lets through

LimitRecipes == 12   \* recipes in the catalog of SpecLimit

LimitKinds ==
    { [ingredients |-> << <<"a">> >>, cuisine |-> Some(<<"A">>), dietary_tags |-> Some(<<"v">>)],
      [ingredients |-> << <<"a">>, <<"b">> >>, cuisine |-> None, dietary_tags |-> None] }

LimitCatalogs == {WithIds(rows) : rows \in SeqsUpTo(LimitKinds, LimitRecipes)}

LimitBodies ==
    { [ingredients |-> << <<"a">> >>],
      [ingredients |-> << <<"b">>, <<"b">> >>, dietary_restrictions |-> <<>>],
      [ingredients |-> << <<"a">> >>, cuisine_preference |-> Some(<<"a">>)],
      [ingredients |-> << <<"a">> >>, max_results |-> Some(3)],
      [ingredients |-> << <<"a">> >>, cuisine_preference |-> Some(<<"a">>),
       max_results |-> Some(3)] }

InitLimit ==
    /\ db \in LimitCatalogs
    /\ request = None
    /\ result = NoResult
    /\ pct_in = <<0, 0>>
    /\ pct_out = -1
    /\ calls = <<>>
    /\ NothingElse

NextLimit ==
    \/ \E body \in LimitBodies : Suggest(body)
    \/ Reply

SpecLimit == InitLimit /\ [][NextLimit]_vars

\* --------------------------------------------- calls running side by side
\* Several workers serve the endpoint over the same database. Each call has
\* its own session and its own locals; a worker runs one call at a time, and
\* the calls of different workers interleave line by line.

MaxCallers == 2      \* workers in SpecCalls
CallRecipes == 2     \* recipes in the catalog of SpecCalls

\* a recipe without ingredients, one whose stored name has an upper-case
\* letter, and one requiring two ingredients
CallKinds ==
    { [ingredients |-> <<>>, cuisine |-> None, dietary_tags |-> None],
      [ingredients |-> << <<"A">> >>, cuisine |-> None, dietary_tags |-> None],
      [ingredients |-> << <<"a">>, <<"b">> >>, cuisine |-> None, dietary_tags |-> None] }

CallCatalogs == {WithIds(rows) : rows \in SeqsUpTo(CallKinds, CallRecipes)}

CallRequests ==
    { [ingredients |-> l, dietary_restrictions |-> <<>>, cuisine_preference |-> None] :
        l \in { <<>>, << <<"a">> >>, << <<"b">> >> } }

\* a worker between two calls
IdleCall ==
    [pc |-> "idle", input_data |-> None, user_ingredients |-> <<>>, recipes |-> <<>>,
     k |-> 0, suggestions |-> <<>>, sorted |-> <<>>, status |-> 0, response |-> None]

\* one list of suggestions that every call appends to
Appended_Shared(all, c, sg) ==
    [d \in DOMAIN all |-> [all[d] EXCEPT !.suggestions = Append(@, sg)]]

\* suggestions.append(...) in the call of worker c: the list is the call's own
Appended(all, c, sg) == [all EXCEPT ![c].suggestions = Append(@, sg)]

\* the call arrives at worker c; its ingredient list is normalized and an
\* empty one is answered 400
Begin(c, input_data) ==
    /\ calls[c].pc = "idle"
    /\ LET user_ingredients == NormalizeIngredients(IngredientInput(input_data).ingredients)
       IN calls' = [calls EXCEPT ![c] =
              [IdleCall EXCEPT !.input_data = Some(input_data),
                               !.user_ingredients = user_ingredients,
                               !.pc = IF NoIngredients(user_ingredients) THEN "done" ELSE "query",
                               !.status = IF NoIngredients(user_ingredients) THEN 400 ELSE 0]]
    /\ UNCHANGED <<db, request, result, pct_in, pct_out, row, display, rag, tables, seeding>>

\* recipes = query.all(); suggestions = []
Query(c) ==
    /\ calls[c].pc = "query"
    /\ calls' = [calls EXCEPT
                   ![c].recipes = QueryRecipes(db, IngredientInput(calls[c].input_data[1])),
                   ![c].suggestions = <<>>,
                   ![c].k = 0,
                   ![c].pc = "loop"]
    /\ UNCHANGED <<db, request, result, pct_in, pct_out, row, display, rag, tables, seeding>>

\* the names lower-cased in place, on the rows themselves
ScoreNext_InPlace(c) ==
    /\ calls[c].pc = "loop"
    /\ calls[c].k < Len(calls[c].recipes)
    /\ LET recipe == calls[c].recipes[calls[c].k + 1]
           lowered == [recipe EXCEPT !.ingredients = RecipeIngredientNames(recipe)]
           sg == ScoreRecipe(recipe, calls[c].user_ingredients)
           after == IF KeepSuggestion(sg.match_percentage, calls[c].user_ingredients)
                    THEN Appended(calls, c, sg) ELSE calls
       IN /\ calls' = [after EXCEPT ![c].k = @ + 1, ![c].recipes[calls[c].k + 1] = lowered]
          /\ db' = [i \in 1..Len(db) |-> IF db[i].id = recipe.id THEN lowered ELSE db[i]]
    /\ UNCHANGED <<request, result, pct_in, pct_out, row, display, rag, tables, seeding>>

\* the calls after worker c has run one iteration of `for recipe in recipes`;
\* an exception ends the call with 500
Scored(c) ==
    LET sg == ScoreRecipe(calls[c].recipes[calls[c].k + 1], calls[c].user_ingredients)
        after == IF KeepSuggestion(sg.match_percentage, calls[c].user_ingredients)
                 THEN Appended(calls, c, sg) ELSE calls
    IN IF sg.match_percentage = ZeroDivisionError
       THEN [calls EXCEPT ![c].pc = "done", ![c].status = 500]
       ELSE [after EXCEPT ![c].k = @ + 1]

\* one iteration of `for recipe in recipes`
ScoreNext(c) ==
    /\ calls[c].pc = "loop"
    /\ calls[c].k < Len(calls[c].recipes)
    /\ calls' = Scored(c)
    /\ UNCHANGED <<db, request, result, pct_in, pct_out, row, display, rag, tables, seeding>>

\* the loop is over: suggestions.sort(...); suggestions = suggestions[:10]
SortAndSlice(c) ==
    /\ calls[c].pc = "loop"
    /\ calls[c].k = Len(calls[c].recipes)
    /\ LET sorted == SortByMatch(calls[c].suggestions, <<>>)
       IN calls' = [calls EXCEPT ![c].sorted = sorted,
                                 ![c].suggestions = CapSuggestions(sorted),
                                 ![c].pc = "return"]
    /\ UNCHANGED <<db, request, result, pct_in, pct_out, row, display, rag, tables, seeding>>

\* return RecipeSuggestionsResponse(...)
Return(c) ==
    /\ calls[c].pc = "return"
    /\ calls' = [calls EXCEPT
                   ![c].response = Some(Respond(calls[c].suggestions, calls[c].user_ingredients,
                                                calls[c].recipes, db, calls[c].sorted)),
                   ![c].status = 200,
                   ![c].pc = "done"]
    /\ UNCHANGED <<db, request, result, pct_in, pct_out, row, display, rag, tables, seeding>>

\* the answer is sent, the session is closed and the worker is free again
Close(c) ==
    /\ calls[c].pc = "done"
    /\ calls' = [calls EXCEPT ![c] = IdleCall]
    /\ UNCHANGED <<db, request, result, pct_in, pct_out, row, display, rag, tables, seeding>>

InitCalls ==
    /\ db \in CallCatalogs
    /\ request = None
    /\ result = NoResult
    /\ pct_in = <<0, 0>>
    /\ pct_out = -1
    /\ calls = [c \in 1..MaxCallers |-> IdleCall]
    /\ NothingElse

NextCalls ==
    \/ \E c \in DOMAIN calls : \E input_data \in CallRequests : Begin(c, input_data)
    \/ \E c \in DOMAIN calls : Query(c)
    \/ \E c \in DOMAIN calls : ScoreNext(c)
    \/ \E c \in DOMAIN calls : SortAndSlice(c)
    \/ \E c \in DOMAIN calls : Return(c)
    \/ \E c \in DOMAIN calls : Close(c)

SpecCalls == InitCalls /\ [][NextCalls]_vars

\* one worker over the catalogs of Spec; a call in progress is run on, line
\* after line, until it returns or raises
InitLive ==
    /\ db \in Catalogs
    /\ request = None
    /\ result = NoResult
    /\ pct_in = <<0, 0>>
    /\ pct_out = -1
    /\ calls = <<IdleCall>>
    /\ NothingElse

\* the next line of some call in progress
Advance ==
    \E c \in DOMAIN calls : Query(c) \/ ScoreNext(c) \/ SortAndSlice(c) \/ Return(c)

SpecLive == InitLive /\ [][NextCalls]_vars /\ WF_vars(Advance)

\* ------------------------------------------------------------------ claims

\* x occurs in y as a contiguous run: y = pre \o x \o suf
IsSubstring(x, y) ==
    \E p \in 0..Len(y) : \E q \in 0..(Len(y) - p) : SubSeq(y, p + 1, Len(y) - q) = x

InSeq(x, seq) == \E i \in 1..Len(seq) : seq[i] = x

\* seq restricted to the positions in P, in order
RECURSIVE Restrict(_, _, _)
Restrict(seq, P, i) ==
    IF i > Len(seq) THEN <<>>
    ELSE (IF i \in P THEN <<seq[i]>> ELSE <<>>) \o Restrict(seq, P, i + 1)

\* a call that got past the empty check has returned
Answered == result.status = 200

\* the lower-cased required names of the k-th candidate handed to the loop
RequiredNames(k) ==
    [i \in 1..Len(result.recipes[k].ingredients) |-> Lower(result.recipes[k].ingredients[i])]

\* C1: a required ingredient r (the name as the loop compares it) is in
\* ingredients_have iff some normalized user ingredient u is a substring of r
\* or has r as a substring; otherwise it is in ingredients_need
C1_SymmetricContainment ==
    Answered =>
        \A k \in 1..Len(result.recipes) : \A i \in 1..Len(RequiredNames(k)) :
            LET r == RequiredNames(k)[i]
                satisfied == \E j \in 1..Len(result.user_ingredients) :
                                \/ IsSubstring(result.user_ingredients[j], r)
                                \/ IsSubstring(r, result.user_ingredients[j])
            IN /\ satisfied <=> InSeq(r, result.scored[k].ingredients_have)
               /\ ~satisfied <=> InSeq(r, result.scored[k].ingredients_need)

\* one candidate has a required name satisfied by a user ingredient that is
\* only a proper part of it, one satisfied because it is a proper part of a
\* user ingredient, one satisfied by equality and one not satisfied
C1_Witness ==
    /\ Answered
    /\ \E k \in 1..Len(result.scored) : \E j \in 1..Len(result.user_ingredients) :
          LET u == result.user_ingredients[j]
              have == result.scored[k].ingredients_have
          IN /\ \E i \in 1..Len(have) : have[i] # u /\ IsSubstring(u, have[i]) /\ u # <<>>
             /\ \E i \in 1..Len(have) : have[i] = u
    /\ \E k \in 1..Len(result.scored) : \E j \in 1..Len(result.user_ingredients) :
          LET u == result.user_ingredients[j]
              have == result.scored[k].ingredients_have
          IN \E i \in 1..Len(have) : have[i] # u /\ IsSubstring(have[i], u)
    /\ \E k \in 1..Len(result.scored) : result.scored[k].ingredients_need # <<>>

\* C2: with at least one required ingredient, match_pct is
\* floor(100 * have / total) for every 0 <= have <= total
C2_FloorOfPercentage ==
    (pct_out # -1 /\ pct_in[2] >= 1) => pct_out = (100 * pct_in[1]) \div pct_in[2]

\* C3: an empty ingredient list is answered 400 with no catalog query, no
\* candidate scored and no suggestion list
C3_EmptyListRejected ==
    (request # None /\ request[1].ingredients = <<>>) =>
        /\ result.status = 400
        /\ ~result.queried
        /\ result.recipes = <<>> /\ result.scored = <<>> /\ result.sorted = <<>>
        /\ result.response = None

\* an empty list was sent against a catalog that holds recipes
C3_Witness ==
    /\ request # None /\ request[1].ingredients = <<>>
    /\ result.status = 400
    /\ Len(db) = MaxRecipes

\* C4: every returned suggestion has 0 < match_percentage <= 100, and a
\* candidate that is returned scored more than 0
C4_ReturnedScoresPositive ==
    Answered =>
        /\ \A i \in 1..Len(result.response[1].suggestions) :
              /\ result.response[1].suggestions[i].match_percentage > 0
              /\ result.response[1].suggestions[i].match_percentage <= 100
        /\ \A k \in 1..Len(result.scored) :
              InSeq(result.scored[k], result.response[1].suggestions)
                  => result.scored[k].match_percentage > 0

\* a candidate scoring 0 was left out while another one was returned
C4_Witness ==
    /\ Answered
    /\ result.response[1].suggestions # <<>>
    /\ \E k \in 1..Len(result.scored) :
          /\ result.scored[k].match_percentage = 0
          /\ Len(result.recipes[k].ingredients) > 0

\* C5: ingredients_have and ingredients_need are the required names at a set
\* of positions and at the remaining positions, in order: their lengths add
\* up to the number of required names and no name is in both
C5_HaveNeedPartition ==
    Answered =>
        \A k \in 1..Len(result.scored) :
            LET names == RequiredNames(k)
                have == result.scored[k].ingredients_have
                need == result.scored[k].ingredients_need
            IN /\ Len(have) + Len(need) = Len(names)
               /\ \A i \in 1..Len(have) : ~InSeq(have[i], need)
               /\ \E P \in SUBSET (1..Len(names)) :
                     /\ have = Restrict(names, P, 1)
                     /\ need = Restrict(names, (1..Len(names)) \ P, 1)

\* a candidate with three required names, some satisfied and some not
C5_Witness ==
    /\ Answered
    /\ \E k \in 1..Len(result.scored) :
          /\ Len(result.recipes[k].ingredients) = 3
          /\ result.scored[k].ingredients_have # <<>>
          /\ result.scored[k].ingredients_need # <<>>

\* the suggestions of the response
Returned == result.response[1].suggestions

\* the scored candidates that score more than 0, in catalog order
PositiveScored ==
    LET Positive(sg) == sg.match_percentage > 0
    IN SelectSeq(result.scored, Positive)

\* C6: the returned suggestions are in non-increasing order of match_percentage
C6_SortedDescending ==
    Answered =>
        \A i \in 1..Len(Returned) : \A j \in 1..Len(Returned) :
            i < j => Returned[i].match_percentage >= Returned[j].match_percentage

\* several suggestions with different scores are returned and the catalog
\* held a lower-scoring candidate before a higher-scoring one
C6_Witness ==
    /\ Answered
    /\ Len(Returned) >= 3
    /\ Returned[1].match_percentage > Returned[Len(Returned)].match_percentage
    /\ \E i \in 1..Len(PositiveScored) : \E j \in 1..Len(PositiveScored) :
          i < j /\ PositiveScored[i].match_percentage < PositiveScored[j].match_percentage

\* C7: the response holds the first min(MaxResults, n) entries of the sorted
\* filtered list, n being the number of candidates scoring more than 0; that
\* list holds exactly those candidates, in non-increasing order
C7_CappedPrefix ==
    Answered =>
        /\ Len(Returned) = Min(MaxResults, Len(PositiveScored))
        /\ Returned = SubSeq(result.sorted, 1, Len(Returned))
        /\ Len(result.sorted) = Len(PositiveScored)
        /\ \A i \in 1..Len(PositiveScored) : InSeq(PositiveScored[i], result.sorted)
        /\ \A i \in 1..Len(result.sorted) : \A j \in 1..Len(result.sorted) :
              i < j => result.sorted[i].match_percentage >= result.sorted[j].match_percentage

\* more than MaxResults candidates score above 0 and the last one kept scores
\* less than the first
C7_Witness ==
    /\ Answered
    /\ Len(PositiveScored) > MaxResults
    /\ Len(Returned) = MaxResults
    /\ Returned[1].match_percentage > Returned[MaxResults].match_percentage

\* C8: a candidate without required ingredients scores 0 and is not returned
C8_EmptyRecipeExcluded ==
    Answered =>
        \A k \in 1..Len(result.recipes) :
            result.recipes[k].ingredients = <<>> =>
                /\ result.scored[k].match_percentage = 0
                /\ \A i \in 1..Len(Returned) : Returned[i].id # result.recipes[k].id

\* a candidate without required ingredients was scored in a call that
\* returned another candidate
C8_Witness ==
    /\ Answered
    /\ Returned # <<>>
    /\ \E k \in 1..Len(result.recipes) : result.recipes[k].ingredients = <<>>

UpperChar(c) ==
    CASE c = "a" -> "A"
      [] c = "b" -> "B"
      [] OTHER -> c

\* the ways of writing one entry that differ from it in letter case or in
\* leading or trailing whitespace only
EntryVariants(entry) ==
    { [i \in 1..Len(entry) |-> UpperChar(entry[i])],
      [i \in 1..Len(entry) |-> LowerChar(entry[i])],
      <<" ">> \o entry,
      entry \o <<" ">>,
      <<" ", " ">> \o [i \in 1..Len(entry) |-> UpperChar(entry[i])] \o <<" ">> }

\* the requests that differ from input_data in one entry written another way,
\* or in every entry upper-cased and padded
RequestVariants(input_data) ==
    UNION { { [input_data EXCEPT !.ingredients[i] = v] :
                v \in EntryVariants(input_data.ingredients[i]) } :
            i \in 1..Len(input_data.ingredients) }
    \cup
    { [input_data EXCEPT !.ingredients =
          [i \in 1..Len(input_data.ingredients) |->
              <<" ">> \o [j \in 1..Len(input_data.ingredients[i]) |->
                             UpperChar(input_data.ingredients[i][j])] \o <<" ">>]] }

\* C9: a request that differs from the one answered only in the letter case or
\* the leading and trailing whitespace of its entries gets the same answer
C9_CaseAndPaddingIgnored ==
    request # None =>
        \A variant \in RequestVariants(request[1]) : SuggestRecipes(variant, db) = result

\* a request with an upper-case and padded entry was answered with a
\* suggestion that has names satisfied and names missing
C9_Witness ==
    /\ Answered
    /\ \E i \in 1..Len(request[1].ingredients) :
          /\ InSeq("A", request[1].ingredients[i])
          /\ InSeq(" ", request[1].ingredients[i])
    /\ \E i \in 1..Len(Returned) :
          Returned[i].ingredients_have # <<>> /\ Returned[i].ingredients_need # <<>>

\* C10: a stored required name is matched as its trimmed lower-case form
\* would be
C10_RequiredNameTrimmed ==
    Answered =>
        \A k \in 1..Len(result.recipes) : \A i \in 1..Len(result.recipes[k].ingredients) :
            LET stored == result.recipes[k].ingredients[i]
                trimmed == Strip(Lower(stored))
                satisfied == \E j \in 1..Len(result.user_ingredients) :
                                \/ IsSubstring(result.user_ingredients[j], trimmed)
                                \/ IsSubstring(trimmed, result.user_ingredients[j])
            IN satisfied <=> InSeq(Lower(stored), result.scored[k].ingredients_have)

\* the orderings of seq
Orderings(seq) ==
    LET n == Len(seq)
        Bijections == {f \in [1..n -> 1..n] : \A i \in 1..n : \E j \in 1..n : f[j] = i}
    IN {[i \in 1..n |-> seq[f[i]]] : f \in Bijections}

\* seq with x put in before position p
InsertAt(seq, p, x) == SubSeq(seq, 1, p - 1) \o <<x>> \o SubSeq(seq, p, Len(seq))

\* the requests whose ingredient list is input_data's in another order, or
\* input_data's with one of its entries repeated somewhere
SameSetRequests(input_data) ==
    LET l == input_data.ingredients
    IN { [input_data EXCEPT !.ingredients = q] : q \in Orderings(l) }
       \cup
       { [input_data EXCEPT !.ingredients = InsertAt(l, p, l[i])] :
            p \in 1..(Len(l) + 1), i \in 1..Len(l) }

\* C11: a request whose ingredient list is a permutation of the answered one,
\* or the answered one with an entry repeated, gets the same ingredients_have,
\* ingredients_need and match_percentage for every candidate and the same
\* suggestions in the same order
C11_UserListIsASet ==
    Answered =>
        \A other \in SameSetRequests(request[1]) :
            LET r == SuggestRecipes(other, db)
            IN /\ r.status = 200
               /\ r.scored = result.scored
               /\ r.response[1].suggestions = Returned

\* the answered request has two entries that normalize differently, and a
\* returned candidate has a name that only the second entry satisfies
C11_Witness ==
    /\ Answered
    /\ Len(result.user_ingredients) >= 2
    /\ result.user_ingredients[1] # result.user_ingredients[2]
    /\ \E i \in 1..Len(Returned) : \E j \in 1..Len(Returned[i].ingredients_have) :
          LET r == Returned[i].ingredients_have[j]
              u1 == result.user_ingredients[1]
              u2 == result.user_ingredients[2]
          IN /\ ~(IsSubstring(u1, r) \/ IsSubstring(r, u1))
             /\ IsSubstring(u2, r) \/ IsSubstring(r, u2)

\* the call of worker c has ended, with an answer or an error
Done(c) == calls[c].pc = "done"

\* what the call of worker c returns when nothing else runs
Alone(c) == SuggestRecipes(IngredientInput(calls[c].input_data[1]), db)

\* C12: two calls with the same body over the same catalog end with the same
\* status and the same response, suggestions in the same order; and two
\* candidates that both score 50 are both among the suggestions
C12_Deterministic ==
    /\ \A c \in DOMAIN calls : \A d \in DOMAIN calls :
          (Done(c) /\ Done(d) /\ calls[c].input_data = calls[d].input_data) =>
              /\ calls[c].status = calls[d].status
              /\ calls[c].response = calls[d].response
    /\ \A c \in DOMAIN calls :
          (Done(c) /\ calls[c].status = 200 /\ Len(calls[c].recipes) <= MaxResults) =>
              \A i \in 1..Len(calls[c].recipes) :
                  ScoreRecipe(calls[c].recipes[i], calls[c].user_ingredients).match_percentage = 50
                      => \E p \in 1..Len(calls[c].response[1].suggestions) :
                            calls[c].response[1].suggestions[p].id = calls[c].recipes[i].id

\* two calls with the same body have ended, each returning two suggestions
\* that score 50
C12_Witness ==
    \E c \in DOMAIN calls : \E d \in DOMAIN calls :
        /\ c # d /\ Done(c) /\ Done(d)
        /\ calls[c].input_data = calls[d].input_data
        /\ calls[c].status = 200
        /\ Len(calls[c].response[1].suggestions) = 2
        /\ \A p \in 1..2 : calls[c].response[1].suggestions[p].match_percentage = 50
        /\ calls[d].response = calls[c].response

\* C13: no step of a call changes the stored catalog, the rows the call
\* read from it, or the body it was sent
C13_NothingMutated ==
    [][/\ db' = db
       /\ \A c \in DOMAIN calls :
             /\ (calls[c].pc # "idle" /\ calls'[c].pc # "idle")
                    => calls'[c].input_data = calls[c].input_data
             /\ (calls[c].pc \in {"loop", "return"})
                    => /\ calls[c].recipes = QueryRecipes(db, IngredientInput(calls[c].input_data[1]))
                       /\ calls'[c].pc # "idle" => calls'[c].recipes = calls[c].recipes]_vars

\* a call has returned a suggestion with a lower-cased name while the
\* catalog still stores the name with its upper-case letter, and another
\* call has failed with 400
C13_Witness ==
    \E c \in DOMAIN calls : \E d \in DOMAIN calls :
        /\ Done(c) /\ calls[c].status = 200
        /\ \E p \in 1..Len(calls[c].response[1].suggestions) :
              LET sg == calls[c].response[1].suggestions[p]
              IN /\ sg.ingredients_have = << <<"a">> >>
                 /\ \E i \in 1..Len(db) : db[i].id = sg.id /\ db[i].ingredients = << <<"A">> >>
        /\ Done(d) /\ calls[d].status = 400

\* C17: under every interleaving, a call that has ended has the status and
\* the response it has when it runs alone
C17_ConcurrentCallsIndependent ==
    \A c \in DOMAIN calls :
        Done(c) => /\ calls[c].status = Alone(c).status
                   /\ calls[c].response = Alone(c).response

\* two calls with different bodies are both inside their loops, each with
\* suggestions of its own appended
C17_Witness ==
    \E c \in DOMAIN calls : \E d \in DOMAIN calls :
        /\ c # d
        /\ calls[c].pc = "loop" /\ calls[d].pc = "loop"
        /\ calls[c].input_data # calls[d].input_data
        /\ calls[c].suggestions # <<>> /\ calls[d].suggestions # <<>>
        /\ calls[c].suggestions # calls[d].suggestions

\* C14: a request with a non-empty ingredient list for which every candidate
\* scores 0, or for which there is no candidate, is answered 200 with an
\* empty list of suggestions and the summary message
C14_NoMatchIsNotAnError ==
    (/\ request # None
     /\ request[1].ingredients # <<>>
     /\ \A k \in 1..Len(result.scored) : result.scored[k].match_percentage = 0) =>
        /\ result.status = 200
        /\ result.response # None
        /\ result.response[1].suggestions = <<>>
        /\ result.response[1].message = Message(0, Len(request[1].ingredients))
        /\ result.response[1].total_recipes_searched = Len(result.recipes)

\* a request with ingredients was answered over candidates that have required
\* ingredients and all score 0
C14_Witness ==
    /\ Answered
    /\ Len(result.scored) = MaxRecipes
    /\ \A k \in 1..Len(result.scored) :
          /\ result.recipes[k].ingredients # <<>>
          /\ result.scored[k].match_percentage = 0
    /\ Returned = <<>>

\* the k-th candidate has required ingredients and all of them are satisfied
FullySatisfied(k) ==
    /\ result.recipes[k].ingredients # <<>>
    /\ result.scored[k].ingredients_need = <<>>

\* the positions of the returned sequence that hold the k-th candidate
PositionsOf(k) == {p \in 1..Len(Returned) : Returned[p].id = result.recipes[k].id}

\* C15 as stated: a fully satisfied candidate scores 100 and is the first
\* returned suggestion whenever no candidate scores higher
C15_FullMatchFirst ==
    Answered =>
        \A k \in 1..Len(result.recipes) :
            FullySatisfied(k) =>
                /\ result.scored[k].match_percentage = 100
                /\ (\A j \in 1..Len(result.scored) :
                       result.scored[j].match_percentage <= result.scored[k].match_percentage)
                      => (Returned # <<>> /\ Returned[1].id = result.recipes[k].id)

\* C15 as amended: a fully satisfied candidate scores 100; it is returned
\* exactly when fewer than MaxResults candidates before it in the catalog
\* score 100, then ahead of every suggestion scoring less, and it is the
\* first suggestion when no candidate before it scores 100
C15_FullMatchLeads ==
    Answered =>
        \A k \in 1..Len(result.recipes) :
            FullySatisfied(k) =>
                LET earlier == {j \in 1..(k - 1) : result.scored[j].match_percentage = 100}
                IN /\ result.scored[k].match_percentage = 100
                   /\ Returned # <<>> /\ Returned[1].match_percentage = 100
                   /\ PositionsOf(k) # {} <=> Cardinality(earlier) < MaxResults
                   /\ \A p \in PositionsOf(k) : \A q \in 1..Len(Returned) :
                         Returned[q].match_percentage < 100 => p < q
                   /\ earlier = {} => 1 \in PositionsOf(k)

\* two fully satisfied candidates are returned first and second, after a
\* candidate that scores less came before both in the catalog
C15_Witness ==
    /\ Answered
    /\ \E k \in 1..Len(result.recipes) : \E l \in 1..Len(result.recipes) :
          /\ 1 < k /\ k < l
          /\ result.scored[1].match_percentage \in 1..99
          /\ FullySatisfied(k) /\ FullySatisfied(l)
          /\ 1 \in PositionsOf(k) /\ 2 \in PositionsOf(l)

\* C16: a call with a non-empty ingredient list never ends in an exception,
\* and once it is past the empty check it goes on to return a response
C16_AlwaysCompletes ==
    /\ [](\A c \in DOMAIN calls :
            (Done(c) /\ calls[c].input_data[1].ingredients # <<>>) =>
                (calls[c].status = 200 /\ calls[c].response # None))
    /\ (calls[1].pc \in {"query", "loop", "return"})
          ~> (Done(1) /\ calls[1].status = 200 /\ calls[1].response # None)

\* a call has returned after scoring a full catalog that holds a recipe
\* without ingredients
C16_Witness ==
    /\ Done(1) /\ calls[1].status = 200
    /\ calls[1].k = MaxRecipes
    /\ \E i \in 1..Len(calls[1].recipes) : calls[1].recipes[i].ingredients = <<>>
    /\ calls[1].response[1].suggestions # <<>>

\* C18: a request that carries a result cap k is answered with at most k
\* suggestions, one that carries none with at most MaxResults
C18_CallerSuppliedCap ==
    Answered =>
        IF "max_results" \in DOMAIN request[1] /\ request[1].max_results # None
        THEN Len(Returned) <= request[1].max_results[1]
        ELSE Len(Returned) <= MaxResults

\* C20: total_recipes_searched is the number of candidates handed to the
\* loop, the message reports the number of suggestions returned and the
\* number of ingredients sent, and no more suggestions are returned than
\* candidates were searched
C20_CountsAndMessage ==
    Answered =>
        /\ result.response[1].total_recipes_searched = Len(result.recipes)
        /\ Len(result.recipes) = Len(result.scored)
        /\ result.response[1].message
              = <<"Found ">> \o Decimal(Len(Returned)) \o <<" recipes matching your ">>
                  \o Decimal(Len(request[1].ingredients)) \o <<" ingredients!">>
        /\ Len(Returned) <= result.response[1].total_recipes_searched

\* the cuisine filter left out a recipe of the table and the slice cut the
\* sorted list, so the three counts differ and the message reads "10"
C20_Witness ==
    /\ Answered
    /\ Len(db) > Len(result.recipes)
    /\ Len(result.sorted) > Len(Returned)
    /\ result.response[1].total_recipes_searched > Len(Returned)
    /\ result.response[1].message
          = <<"Found ", "1", "0", " recipes matching your ", "1", " ingredients!">>

\* C19: every name reported in ingredients_have or ingredients_need is,
\* character for character, a stored required name of the candidate
C19_StoredNamesReported ==
    Answered =>
        \A k \in 1..Len(result.scored) :
            /\ \A i \in 1..Len(result.scored[k].ingredients_have) :
                  InSeq(result.scored[k].ingredients_have[i], result.recipes[k].ingredients)
            /\ \A i \in 1..Len(result.scored[k].ingredients_need) :
                  InSeq(result.scored[k].ingredients_need[i], result.recipes[k].ingredients)

\* C21: whenever a call is at the per-candidate filter or past it, its
\* normalized ingredient list is non-empty, so every suggestion appended
\* scored more than 0
C21_EmptyListDisjunctUnreachable ==
    \A c \in DOMAIN calls :
        calls[c].pc \in {"loop", "return"} =>
            /\ Len(calls[c].user_ingredients) > 0
            /\ \A i \in 1..Len(calls[c].suggestions) :
                  calls[c].suggestions[i].match_percentage > 0

\* one call was refused for its empty list while another has put a candidate
\* scoring 0 through the filter without appending it
C21_Witness ==
    \E c \in DOMAIN calls : \E d \in DOMAIN calls :
        /\ Done(c) /\ calls[c].status = 400
        /\ calls[d].pc = "loop" /\ calls[d].k = 1
        /\ calls[d].recipes[1].ingredients # <<>>
        /\ calls[d].suggestions = <<>>

\* C22: returned suggestions with equal match_percentage are in catalog order
\* (ids follow catalog order), and a candidate that scores more than 0 and is
\* cut comes, in the catalog, after every returned suggestion with its score
C22_TiesInCatalogOrder ==
    Answered =>
        /\ \A p \in 1..Len(Returned) : \A q \in 1..Len(Returned) :
              (p < q /\ Returned[p].match_percentage = Returned[q].match_percentage)
                  => Returned[p].id < Returned[q].id
        /\ \A i \in 1..Len(PositiveScored) :
              ~InSeq(PositiveScored[i], Returned) =>
                  \A p \in 1..Len(Returned) :
                      Returned[p].match_percentage = PositiveScored[i].match_percentage
                          => Returned[p].id < PositiveScored[i].id

\* the slice cut between two candidates with the same score, and the catalog
\* had candidates of another score between the tied ones that were returned
C22_Witness ==
    /\ Answered
    /\ Len(result.sorted) > MaxResults
    /\ result.sorted[MaxResults].match_percentage
          = result.sorted[MaxResults + 1].match_percentage
    /\ \E p \in 1..(Len(Returned) - 1) :
          /\ Returned[p].match_percentage = Returned[p + 1].match_percentage
          /\ Returned[p + 1].id > Returned[p].id + 1

\* C23: a candidate that scores more than 0 and is not returned scores no
\* more than any returned suggestion, and there is such a candidate only when
\* exactly MaxResults suggestions are returned
C23_TruncationKeepsBest ==
    Answered =>
        \A i \in 1..Len(PositiveScored) :
            ~InSeq(PositiveScored[i], Returned) =>
                /\ Len(Returned) = MaxResults
                /\ \A p \in 1..Len(Returned) :
                      PositiveScored[i].match_percentage <= Returned[p].match_percentage

\* a candidate scoring more than 0 was cut although it came first in the
\* catalog, and it scores less than a suggestion that was returned
C23_Witness ==
    /\ Answered
    /\ Len(Returned) = MaxResults
    /\ PositiveScored # <<>>
    /\ ~InSeq(PositiveScored[1], Returned)
    /\ PositiveScored[1].match_percentage < Returned[MaxResults].match_percentage

\* x is y with some elements left out
RECURSIVE IsSubsequence(_, _)
IsSubsequence(x, y) ==
    IF x = <<>> THEN TRUE
    ELSE IF y = <<>> THEN FALSE
    ELSE IF Head(x) = Head(y) THEN IsSubsequence(Tail(x), Tail(y))
    ELSE IsSubsequence(x, Tail(y))

\* the requests that have one more entry than input_data, anywhere in the list
LargerRequests(input_data) ==
    { [input_data EXCEPT !.ingredients = InsertAt(input_data.ingredients, p, e)] :
        p \in 1..(Len(input_data.ingredients) + 1), e \in UserEntries }

\* C24: under a request with one more ingredient, every candidate's
\* ingredients_have has the former one as a subsequence, its match_percentage
\* is not smaller, and it passes the filter if it did before
C24_MonotoneInUserIngredients ==
    Answered =>
        \A larger \in LargerRequests(request[1]) :
            LET r == SuggestRecipes(IngredientInput(larger), db)
            IN /\ r.status = 200
               /\ Len(r.scored) = Len(result.scored)
               /\ \A k \in 1..Len(result.scored) :
                     /\ IsSubsequence(result.scored[k].ingredients_have,
                                      r.scored[k].ingredients_have)
                     /\ result.scored[k].match_percentage <= r.scored[k].match_percentage
                     /\ InSeq(result.scored[k], result.sorted)
                           => \E p \in 1..Len(r.sorted) : r.sorted[p].id = result.scored[k].id

\* the answered request left a required name of a returned candidate
\* missing that one more ingredient would satisfy
C24_Witness ==
    /\ Answered
    /\ \E p \in 1..Len(Returned) : \E i \in 1..Len(Returned[p].ingredients_need) :
          \E e \in UserEntries :
              LET u == Strip(Lower(e))
                  name == Returned[p].ingredients_need[i]
              IN u # <<>> /\ (IsSubstring(u, name) \/ IsSubstring(name, u))

\* the request holds an entry that is empty after trimming
HasBlankEntry ==
    /\ request # None
    /\ \E i \in 1..Len(request[1].ingredients) :
          Strip(Lower(request[1].ingredients[i])) = <<>>

\* C25: a request with an entry that is empty after trimming is answered, not
\* rejected, and every candidate with at least one required ingredient has
\* ingredients_need = [] and match_percentage 100
C25_BlankEntryMatchesAll ==
    HasBlankEntry =>
        /\ result.status = 200
        /\ \A k \in 1..Len(result.scored) :
              result.recipes[k].ingredients # <<>> =>
                  /\ result.scored[k].ingredients_need = <<>>
                  /\ result.scored[k].ingredients_have = RequiredNames(k)
                  /\ result.scored[k].match_percentage = 100

\* a request whose only entry is blanks scored a candidate that requires
\* something at 100
C25_Witness ==
    /\ HasBlankEntry
    /\ request[1].ingredients = << <<" ">> >>
    /\ \E k \in 1..Len(result.scored) :
          /\ Len(result.recipes[k].ingredients) > 1
          /\ result.scored[k].match_percentage = 100
          /\ InSeq(result.scored[k], Returned)

\* C26: a candidate passes the filter iff it has a required ingredient and
\* 100 * |ingredients_have| >= |required|; with at most 100 required
\* ingredients that is the same as having one satisfied ingredient, and a
\* satisfied share below 1% scores 0 and is dropped
C26_FilterThreshold ==
    pct_out # -1 =>
        LET have == pct_in[1]
            total == pct_in[2]
            kept == KeepSuggestion(pct_out, << <<"a">> >>)
        IN /\ kept <=> (total >= 1 /\ 100 * have >= total)
           /\ total \in 1..100 => (kept <=> have >= 1)
           /\ (have >= 1 /\ 100 * have < total) => (pct_out = 0 /\ ~kept)

\* one satisfied ingredient of 101 scored 0
C26_Witness == pct_in = <<1, 101>> /\ pct_out = 0

\* C27: every candidate handed to the matching loop carries every requested
\* dietary restriction in its dietary tags and, when a cuisine preference is
\* given, has a cuisine that contains the preference as a substring without
\* regard to case; with neither filter the loop gets the whole catalog
C27_Preselected ==
    Answered =>
        LET pref == request[1].cuisine_preference
            restrictions == request[1].dietary_restrictions
        IN /\ \A k \in 1..Len(result.recipes) :
                 /\ \A i \in 1..Len(restrictions) :
                       /\ result.recipes[k].dietary_tags # None
                       /\ InSeq(restrictions[i], result.recipes[k].dietary_tags[1])
                 /\ (pref # None /\ pref[1] # <<>>) =>
                       /\ result.recipes[k].cuisine # None
                       /\ IsSubstring(Lower(pref[1]), Lower(result.recipes[k].cuisine[1]))
           /\ (pref = None /\ restrictions = <<>>) => result.recipes = db

\* ----------------------------------------- specification: the time display

\* Recipe rows as far as the display reads them: each time is NULL or a
\* number of minutes
TimeRows ==
    [prep_time_minutes : {None} \cup {Some(n) : n \in 0..MaxMinutes},
     cook_time_minutes : {None} \cup {Some(n) : n \in 0..MaxMinutes}]

InitTime ==
    /\ db = <<>>
    /\ request = None
    /\ result = NoResult
    /\ pct_in = <<0, 0>>
    /\ pct_out = -1
    /\ calls = <<>>
    /\ row \in {Some(r) : r \in TimeRows}
    /\ display = None
    /\ rag = IdleRag(FALSE, <<>>)
    /\ tables = EmptyTables
    /\ seeding = IdleSeeding

\* recipe.total_time_display is read
ShowTotalTime ==
    /\ row # None
    /\ display = None
    /\ display' = Some(TotalTimeDisplay(row[1]))
    /\ UNCHANGED <<suggestVars, row, rag, tables, seeding>>

NextTime == ShowTotalTime

SpecTime == InitTime /\ [][NextTime]_vars

\* the number a string of decimal digits spells, -1 when it is not one
RECURSIVE ParseInt(_)
ParseInt(s) ==
    LET DigitValue(c) ==
            CASE c = "0" -> 0 [] c = "1" -> 1 [] c = "2" -> 2 [] c = "3" -> 3
              [] c = "4" -> 4 [] c = "5" -> 5 [] c = "6" -> 6 [] c = "7" -> 7
              [] c = "8" -> 8 [] c = "9" -> 9 [] OTHER -> -1
        last == DigitValue(s[Len(s)])
        front == ParseInt(SubSeq(s, 1, Len(s) - 1))
    IN IF s = <<>> \/ last = -1 THEN -1
       ELSE IF Len(s) = 1 THEN last
       ELSE IF front <= 0 THEN -1
       ELSE 10 * front + last

\* the hours and minutes a display of the form "<h>h" or "<h>h <m>m" shows,
\* <<-1, -1>> when it has neither form
HoursAndMinutes(s) ==
    IF \E p \in 1..Len(s) : s[p] = "h"
    THEN LET p == CHOOSE q \in 1..Len(s) : s[q] = "h"
             hours == ParseInt(SubSeq(s, 1, p - 1))
             rest == SubSeq(s, p + 1, Len(s))
         IN IF rest = <<>> THEN <<hours, 0>>
            ELSE IF Len(rest) >= 3 /\ rest[1] = " " /\ rest[Len(rest)] = "m"
                 THEN <<hours, ParseInt(SubSeq(rest, 2, Len(rest) - 1))>>
            ELSE <<-1, -1>>
    ELSE <<-1, -1>>

\* C28: with total the sum of the prep and cook times, a missing one counted
\* as 0, the display is "<total> minutes" below 60 and otherwise shows hours h
\* and minutes m with 60*h + m = total and 0 <= m < 60, the minutes left out
\* exactly when m = 0
C28_TotalTimeDisplay ==
    display # None =>
        LET prep == IF row[1].prep_time_minutes = None THEN 0 ELSE row[1].prep_time_minutes[1]
            cook == IF row[1].cook_time_minutes = None THEN 0 ELSE row[1].cook_time_minutes[1]
            total == prep + cook
            s == display[1]
            unit == <<" ", "m", "i", "n", "u", "t", "e", "s">>
            hm == HoursAndMinutes(s)
        IN IF total < 60
           THEN /\ Len(s) > Len(unit)
                /\ SubSeq(s, Len(s) - Len(unit) + 1, Len(s)) = unit
                /\ ParseInt(SubSeq(s, 1, Len(s) - Len(unit))) = total
           ELSE /\ hm[1] = total \div 60
                /\ hm[2] = total % 60
                /\ 60 * hm[1] + hm[2] = total
                /\ hm[2] \in 0..59
                /\ (s[Len(s)] = "h") <=> (hm[2] = 0)

\* a row without a prep time shown as whole hours, and one shown with minutes
C28_Witness ==
    /\ display # None
    /\ row[1].prep_time_minutes = None
    /\ row[1].cook_time_minutes = Some(60)
    /\ display[1] = <<"1", "h">>

\* ------------------------------------ specification: POST /api/rag/suggest

\* the metadata of an indexed document: its cuisine and its dietary_tags
\* string split at the commas ("" splits into one empty tag)
RagDocs ==
    { [cuisine |-> "a", dietary_tags |-> <<"v">>],
      [cuisine |-> "b", dietary_tags |-> <<"">>] }

RagCollections == SeqsUpTo(RagDocs, MaxIndexed)

\* RAGSearchRequest bodies; the query text and the ingredients only make up
\* the search text
RagBodies ==
    [dietary_restrictions : {<<>>, <<"v">>},
     cuisine_preference : {None, Some("a")}]

InitRag ==
    /\ db = <<>>
    /\ request = None
    /\ result = NoResult
    /\ pct_in = <<0, 0>>
    /\ pct_out = -1
    /\ calls = <<>>
    /\ row = None
    /\ display = None
    /\ rag \in {IdleRag(api_key, collection) :
                    api_key \in BOOLEAN, collection \in RagCollections}
    /\ tables = EmptyTables
    /\ seeding = IdleSeeding

\* a request arrives at rag_suggest_recipes
RagBegin(body) ==
    /\ rag.pc = "idle"
    /\ rag' = [IdleRag(rag.api_key, rag.collection) EXCEPT !.pc = "key", !.body = Some(body)]
    /\ UNCHANGED <<suggestVars, timeVars, tables, seeding>>

\* if not settings.OPENAI_API_KEY: 503
RagCheckKey ==
    /\ rag.pc = "key"
    /\ rag' = IF ~rag.api_key
              THEN [rag EXCEPT !.pc = "done", !.status = 503]
              ELSE [rag EXCEPT !.pc = "stats"]
    /\ UNCHANGED <<suggestVars, timeVars, tables, seeding>>

\* stats = rag_service.get_collection_stats(); no document: 400
RagStats ==
    /\ rag.pc = "stats"
    /\ \E readable \in BOOLEAN :
          LET stats == GetCollectionStats(rag.collection, readable)
              asked == [rag EXCEPT !.stats = Some(stats), !.made = Append(@, "count")]
          IN rag' = IF NoneIndexed(stats)
                    THEN [asked EXCEPT !.pc = "done", !.status = 400]
                    ELSE [asked EXCEPT !.pc = "search"]
    /\ UNCHANGED <<suggestVars, timeVars, tables, seeding>>

\* rag_recipe_suggestions up to the retrieval: without a recipe it returns
\* success False, which the endpoint answers with 500
RagSearch ==
    /\ rag.pc = "search"
    /\ \E answers \in BOOLEAN :
          LET similar_recipes ==
                  SemanticSearch(rag.collection, RagResults, rag.body[1].cuisine_preference,
                                 rag.body[1].dietary_restrictions, answers)
              searched == [rag EXCEPT !.similar_recipes = similar_recipes,
                                      !.made = Append(@, "query")]
          IN rag' = IF similar_recipes = <<>>
                    THEN [searched EXCEPT !.pc = "done", !.status = 500]
                    ELSE [searched EXCEPT !.pc = "llm"]
    /\ UNCHANGED <<suggestVars, timeVars, tables, seeding>>

\* openai_client.chat.completions.create and json.loads: success True, or
\* success False when either raises
RagComplete ==
    /\ rag.pc = "llm"
    /\ \E success \in BOOLEAN :
          rag' = [rag EXCEPT !.pc = "done", !.made = Append(@, "chat"),
                             !.status = IF success THEN 200 ELSE 500]
    /\ UNCHANGED <<suggestVars, timeVars, tables, seeding>>

\* the response is sent
RagReturn ==
    /\ rag.pc = "done"
    /\ rag' = IdleRag(rag.api_key, rag.collection)
    /\ UNCHANGED <<suggestVars, timeVars, tables, seeding>>

NextRag ==
    \/ \E body \in RagBodies : RagBegin(body)
    \/ RagCheckKey
    \/ RagStats
    \/ RagSearch
    \/ RagComplete
    \/ RagReturn

SpecRag == InitRag /\ [][NextRag]_vars

\* C29: the calls made to the index and to the chat model, in the order made,
\* are a prefix of count, query, chat: none when the API key is missing (503);
\* the count alone when it is 0 or cannot be read (400); a query only after a
\* positive count; the chat only after a query that returned a recipe; and a
\* query that returned none is answered 500
C29_ChecksInOrder ==
    /\ rag.pc \in {"stats", "search", "llm"} => rag.api_key
    /\ rag.pc = "done" =>
          /\ ~rag.api_key <=> rag.status = 503
          /\ rag.status = 503 => rag.made = <<>>
          /\ rag.made # <<>> =>
                ((DocumentCount(rag.stats[1]) = 0) <=> rag.status = 400)
          /\ rag.status = 400 => rag.made = <<"count">>
          /\ (Len(rag.made) >= 2 /\ rag.similar_recipes = <<>>) =>
                (rag.status = 500 /\ rag.made = <<"count", "query">>)
          /\ rag.status = 200 => rag.made = <<"count", "query", "chat">>
    /\ \A i \in 1..Len(rag.made) :
          /\ rag.made[i] = <<"count", "query", "chat">>[i]
          /\ rag.made[i] = "query" =>
                (rag.stats[1].document_count # None /\ rag.stats[1].document_count[1] > 0)
          /\ rag.made[i] = "chat" => Len(rag.similar_recipes) >= 1

\* the index holds documents and was searched, no recipe came back, and the
\* call ended with 500 without the chat model being called
C29_Witness ==
    /\ rag.pc = "done"
    /\ rag.status = 500
    /\ rag.made = <<"count", "query">>
    /\ rag.stats[1].document_count = Some(MaxIndexed)
    /\ rag.body[1].dietary_restrictions = <<"v">>

\* ---------------------------------------- specification: seed_database

InitSeed ==
    /\ db = <<>>
    /\ request = None
    /\ result = NoResult
    /\ pct_in = <<0, 0>>
    /\ pct_out = -1
    /\ calls = <<>>
    /\ row = None
    /\ display = None
    /\ rag = IdleRag(FALSE, <<>>)
    /\ tables = EmptyTables
    /\ seeding = IdleSeeding

\* the script is started: db = SessionLocal(). Every run is a process of its
\* own and reads RECIPES_DATA as the source has it.
SeedBegin ==
    /\ seeding.pc = "idle"
    /\ seeding' = [IdleSeeding EXCEPT !.pc = "check", !.found = tables]
    /\ UNCHANGED <<suggestVars, timeVars, rag, tables>>

\* existing_recipes > 0: return when a recipe exists
SeedCheck ==
    /\ seeding.pc = "check"
    /\ seeding' = IF AlreadySeeded(tables.recipes)
                  THEN [seeding EXCEPT !.pc = "close", !.outcome = "skipped"]
                  ELSE [seeding EXCEPT !.pc = "loop", !.k = 1, !.j = 1]
    /\ UNCHANGED <<suggestVars, timeVars, rag, tables>>

\* one pass of the inner loop: the name is normalized, its Ingredient is taken
\* from the cache, else from the table, else created and flushed, and is
\* appended to recipe.ingredients
SeedIngredient ==
    /\ seeding.pc = "loop"
    /\ seeding.k <= Len(RECIPES_DATA)
    /\ seeding.j <= Len(RECIPES_DATA[seeding.k].ingredients)
    /\ LET ing_name == IngName(RECIPES_DATA[seeding.k].ingredients[seeding.j])
           rows == tables.ingredients \o seeding.session.ingredients
           cached == CachePosition(seeding.ingredient_cache, ing_name)
           stored == FirstIngredient(rows, ing_name)
           at == IF cached # 0 THEN seeding.ingredient_cache[cached].at
                 ELSE IF stored # 0 THEN stored
                 ELSE Len(rows) + 1
       IN seeding' = [seeding EXCEPT
                         !.session.ingredients =
                             IF cached = 0 /\ stored = 0
                             THEN Append(@, [name |-> ing_name]) ELSE @,
                         !.ingredient_cache =
                             IF cached = 0 THEN Append(@, [name |-> ing_name, at |-> at]) ELSE @,
                         !.recipe = Append(@, at),
                         !.j = @ + 1]
    /\ UNCHANGED <<suggestVars, timeVars, rag, tables>>

\* db.add(recipe) once the recipe's ingredients are through
SeedAddRecipe ==
    /\ seeding.pc = "loop"
    /\ seeding.k <= Len(RECIPES_DATA)
    /\ seeding.j > Len(RECIPES_DATA[seeding.k].ingredients)
    /\ seeding' = [seeding EXCEPT
                      !.session.recipes =
                          Append(@, [name |-> RECIPES_DATA[seeding.k].name,
                                     ingredients |-> seeding.recipe]),
                      !.recipe = <<>>,
                      !.k = @ + 1,
                      !.j = 1]
    /\ UNCHANGED <<suggestVars, timeVars, rag, tables>>

\* db.commit() after the last recipe: the session's rows become table rows
SeedCommit ==
    /\ seeding.pc = "loop"
    /\ seeding.k > Len(RECIPES_DATA)
    /\ tables' = [recipes |-> tables.recipes \o seeding.session.recipes,
                  ingredients |-> tables.ingredients \o seeding.session.ingredients]
    /\ seeding' = [seeding EXCEPT !.pc = "summary", !.session = EmptyTables]
    /\ UNCHANGED <<suggestVars, timeVars, rag>>

\* the summary after the commit: db.query(Ingredient).count() and the prints
SeedSummary ==
    /\ seeding.pc = "summary"
    /\ seeding' = [seeding EXCEPT !.pc = "close", !.outcome = "seeded"]
    /\ UNCHANGED <<suggestVars, timeVars, rag, tables>>

\* a statement inside the try block raises (a query, a flush, the commit, the
\* count of the summary): db.rollback() drops what the session holds, and the
\* exception is raised again
SeedFail ==
    /\ seeding.pc \in {"check", "loop", "summary"}
    /\ seeding' = [seeding EXCEPT
                      !.pc = "close", !.outcome = "failed", !.session = EmptyTables,
                      !.error = <<seeding.pc, seeding.k, seeding.j>>]
    /\ UNCHANGED <<suggestVars, timeVars, rag, tables>>

\* finally: db.close(), and the process ends
SeedClose ==
    /\ seeding.pc = "close"
    /\ seeding' = [seeding EXCEPT !.pc = "idle", !.k = 0, !.j = 0,
                                  !.ingredient_cache = <<>>, !.recipe = <<>>]
    /\ UNCHANGED <<suggestVars, timeVars, rag, tables>>

NextSeed ==
    \/ SeedBegin
    \/ SeedCheck
    \/ SeedIngredient
    \/ SeedAddRecipe
    \/ SeedCommit
    \/ SeedSummary
    \/ SeedFail
    \/ SeedClose

SpecSeed == InitSeed /\ [][NextSeed]_vars

\* the normalized ingredient names of all seed recipes
SeedNames ==
    UNION { { Strip(Lower(RECIPES_DATA[k].ingredients[j])) :
                j \in 1..Len(RECIPES_DATA[k].ingredients) } :
            k \in 1..Len(RECIPES_DATA) }

\* the tables hold the seed recipes once, in order, each linked to the rows of
\* its ingredients, and one ingredient row for each normalized name
HoldsTheSeed(t) ==
    /\ Len(t.recipes) = Len(RECIPES_DATA)
    /\ \A k \in 1..Len(t.recipes) :
          /\ t.recipes[k].name = RECIPES_DATA[k].name
          /\ Len(t.recipes[k].ingredients) = Len(RECIPES_DATA[k].ingredients)
          /\ \A j \in 1..Len(t.recipes[k].ingredients) :
                /\ t.recipes[k].ingredients[j] \in 1..Len(t.ingredients)
                /\ t.ingredients[t.recipes[k].ingredients[j]].name
                      = Strip(Lower(RECIPES_DATA[k].ingredients[j]))
    /\ \A n \in SeedNames :
          Cardinality({p \in 1..Len(t.ingredients) : t.ingredients[p].name = n}) = 1
    /\ \A p \in 1..Len(t.ingredients) : t.ingredients[p].name \in SeedNames

\* C30: a run that finds a recipe changes nothing; a successful run on empty
\* tables stores every seed recipe and exactly one Ingredient row per distinct
\* normalized name; a run in which a step failed leaves the tables as it
\* found them; and nothing is stored while a run is under way
C30_SeedAllOrNothing ==
    /\ seeding.outcome = "skipped" =>
          (seeding.found.recipes # <<>> /\ tables = seeding.found)
    /\ seeding.outcome = "seeded" =>
          (seeding.found = EmptyTables /\ HoldsTheSeed(tables))
    /\ seeding.outcome = "failed" => tables = seeding.found
    /\ seeding.pc \in {"check", "loop"} => tables = seeding.found

\* what holds of every run: as above, but a failure after the commit leaves the
\* whole seed stored
SeedAtomicUpToCommit ==
    /\ seeding.outcome = "skipped" =>
          (seeding.found.recipes # <<>> /\ tables = seeding.found)
    /\ seeding.outcome = "seeded" =>
          (seeding.found = EmptyTables /\ HoldsTheSeed(tables))
    /\ (seeding.outcome = "failed" /\ seeding.error[1] # "summary") => tables = seeding.found
    /\ (seeding.outcome = "failed" /\ seeding.error[1] = "summary") => HoldsTheSeed(tables)
    /\ seeding.pc \in {"check", "loop"} => tables = seeding.found

====
